---------------------------- MODULE Spec2Model ----------------------------
(***************************************************************************)
(* The Olympic athlete dashboard of streamlit.py as a state machine.       *)
(*                                                                         *)
(* The script is run top to bottom once per user interaction.  One run is  *)
(* the sequence  load_data -> sidebar widgets -> filter -> aggregates, and *)
(* pc records how far the current run has got.  Between runs only the      *)
(* st.cache_data store and the session's widget values survive.            *)
(*                                                                         *)
(* A data frame is a sequence of rows (records), in index order.  A cell  *)
(* of a nullable column is <<>> (NaN, an empty CSV field) or <<v>>; ID and *)
(* Year are plain integers.  Columns no computation of the script reads    *)
(* (Games, Season, City, Team Name) are left out of the rows.              *)
(***************************************************************************)
EXTENDS Integers, Sequences, FiniteSets, TLC

VARIABLES
    file,                       \* rows of athlete_events.csv
    cache,                      \* st.cache_data store of load_data: <<>> or <<frame>>
    reads,                      \* number of times the body of load_data has run
    pc,                         \* position of the current script run
    widgets,                    \* session widget state: <<>> before the first run
    df,                         \* the frame load_data returned to this run
    selected_year_range,
    selected_sport,
    selected_countries,
    filtered_df,
    metrics,                    \* the four counters of lines 76-79
    age_rows,                   \* the frame given to the age histogram
    gender_counts,
    hw_rows,                    \* the frame given to the height/weight scatter
    bmi_rows,                   \* the frame given to the BMI histogram
    medal_counts,
    medal_year_type,
    top_athletes,
    country_medals_over_years,  \* <<>> when the placeholder is shown instead
    athlete_counts_overall

selVars == <<selected_year_range, selected_sport, selected_countries>>

viewVars == <<metrics, age_rows, gender_counts, hw_rows, bmi_rows, medal_counts,
              medal_year_type, top_athletes, country_medals_over_years,
              athlete_counts_overall>>

vars == <<file, cache, reads, pc, widgets, df, selVars, filtered_df, viewVars>>

----------------------------------------------------------------------------
(* Bounds of the model. *)

\* Longest file of the families enumerated row by row.
MaxRows == 2

\* Most sports (and athletes) with medals in a file of the ranking family.
MaxGroups == 11

----------------------------------------------------------------------------
(* Constants of the program. *)

\* head(10)
TopN == 10

----------------------------------------------------------------------------
(* Values. *)

NaN == <<>>

Some(v) == <<v>>

isna(c) == c = NaN

notna(c) == c # NaN

Range(s) == {s[i] : i \in 1..Len(s)}

\* Number of rows of a frame equal to r.
Occurrences(frame, r) == Cardinality({i \in 1..Len(frame) : frame[i] = r})

\* All sequences over S of length 1..n.
SeqsUpTo(S, n) == UNION {[1..k -> S] : k \in 1..n}

RECURSIVE GCD(_, _)
GCD(a, b) == IF b = 0 THEN a ELSE GCD(b, a % b)

----------------------------------------------------------------------------
(* The CSV file. *)

CsvRow(id, name, sex, age, height, weight, noc, year, sport, event, medal) ==
    [ID |-> id, Name |-> name, Sex |-> sex, Age |-> age, Height |-> height,
     Weight |-> weight, NOC |-> noc, Year |-> year, Sport |-> sport,
     Event |-> event, Medal |-> medal]

\* Files whose rows differ in the three filtered columns, two of the rows
\* having no Sport and no Country.
FilterRows ==
    {CsvRow(1, Some("A"), Some("M"), Some(24), Some(170), Some(70), Some(c), y,
            Some(s), Some("Final"), Some("Gold")) :
        c \in {"JPN", "USA"}, y \in {2000, 2002}, s \in {"Judo", "Swimming"}}
    \cup
    {CsvRow(2, Some("B"), Some("F"), NaN, Some(180), Some(75), Some("JPN"), 2000,
            NaN, Some("Final"), NaN),
     CsvRow(3, Some("C"), Some("M"), Some(30), Some(190), Some(85), NaN, 2002,
            Some("Judo"), Some("Final"), Some("Silver"))}

FilterFiles == SeqsUpTo(FilterRows, MaxRows)

\* Files whose rows differ in Height and Weight.
PhysicalRows ==
    {CsvRow(1, Some("A"), Some("M"), Some(24), h, w, Some("JPN"), 2000,
            Some("Judo"), Some("Final"), Some("Gold")) :
        h \in {NaN, Some(0), Some(170), Some(180)},
        w \in {NaN, Some(0), Some(70), Some(80)}}

PhysicalFiles == SeqsUpTo(PhysicalRows, MaxRows)

\* Files whose rows differ in Sex.
GenderRows ==
    {CsvRow(1, Some("A"), x, Some(24), Some(170), Some(70), Some("JPN"), 2000,
            Some("Judo"), Some("Final"), Some("Gold")) :
        x \in {NaN, Some("M"), Some("F")}}

GenderFiles == SeqsUpTo(GenderRows, MaxRows + 2)

\* Files whose rows differ in Year and Medal.
MedalRows ==
    {CsvRow(1, Some("A"), Some("M"), Some(24), Some(170), Some(70), Some("JPN"), y,
            Some("Judo"), Some("Final"), m) :
        y \in {2000, 2002}, m \in {NaN, Some("Gold"), Some("Silver"), Some("Bronze")}}

MedalFiles == SeqsUpTo(MedalRows, MaxRows)

\* Files with many sports and athletes: athlete g competes in sport g and
\* has n - g + 1 medal rows, except that with tie > 0 athlete tie + 1 has as
\* many as athlete tie.  The groups follow each other in ascending or in
\* descending order, and a last row without a medal is of the next year.
SportNames ==
    <<"Archery", "Boxing", "Cycling", "Diving", "Fencing", "Golf", "Hockey",
      "Judo", "Karate", "Luge", "Rowing", "Sailing", "Tennis", "Wrestling">>

AthleteNames ==
    <<"A", "B", "C", "D", "E", "F", "G", "H", "I", "J", "K", "L", "M", "N">>

RankingSize(n, tie, g) == IF tie > 0 /\ g = tie + 1 THEN n - tie + 1 ELSE n - g + 1

RankingGroup(n, tie, g) ==
    [i \in 1..RankingSize(n, tie, g) |->
        CsvRow(g, Some(AthleteNames[g]), Some("M"), Some(24), Some(170), Some(70),
               Some("JPN"), 2000, Some(SportNames[g]), Some("Final"), Some("Gold"))]

RECURSIVE RankingGroups(_, _, _, _)
RankingGroups(n, tie, ascending, k) ==
    IF k > n THEN <<>>
    ELSE RankingGroup(n, tie, IF ascending THEN k ELSE n - k + 1)
            \o RankingGroups(n, tie, ascending, k + 1)

RankingFile(n, tie, ascending) ==
    Append(RankingGroups(n, tie, ascending, 1),
           CsvRow(1, Some(AthleteNames[1]), Some("M"), Some(25), Some(170), Some(70),
                  Some("JPN"), 2001, Some(SportNames[1]), Some("Final"), NaN))

RankingFiles ==
    {RankingFile(n, tie, asc) :
        n \in (MaxGroups - 1)..MaxGroups, tie \in 0..(MaxGroups - 1), asc \in BOOLEAN}

----------------------------------------------------------------------------
(* load_data *)

\* A float of the BMI column that is not NaN: the exact quotient num/den in
\* lowest terms, den = 0 being +inf (rounding to a double is not modelled).
Float(n, d) == [num |-> n \div GCD(n, d), den |-> d \div GCD(n, d)]

\* df['Weight'] / ((df['Height'] / 100) ** 2), element-wise in IEEE arithmetic:
\* a NaN operand gives NaN, 0/0 is NaN and x/0 is inf for x > 0.
ComputeBMI(height, weight) ==
    IF isna(height) \/ isna(weight) THEN NaN
    ELSE IF height[1] = 0 /\ weight[1] = 0 THEN NaN
    ELSE Some(Float(weight[1] * 10000, height[1] * height[1]))

\* One row after the rename of NOC to Country and the new BMI column.
LoadRow(r) ==
    [ID |-> r.ID, Name |-> r.Name, Sex |-> r.Sex, Age |-> r.Age,
     Height |-> r.Height, Weight |-> r.Weight, Country |-> r.NOC,
     Year |-> r.Year, Sport |-> r.Sport, Event |-> r.Event, Medal |-> r.Medal,
     BMI |-> ComputeBMI(r.Height, r.Weight)]

\* The body of load_data.
ReadAndPrepare(csv) == [i \in 1..Len(csv) |-> LoadRow(csv[i])]

\* load_data() on a cache miss: the body runs and its result is stored.
LoadDataMiss ==
    /\ pc = "start"
    /\ cache = <<>>
    /\ cache' = <<ReadAndPrepare(file)>>
    /\ reads' = reads + 1
    /\ df' = cache'[1]
    /\ pc' = "loaded"
    /\ UNCHANGED <<file, widgets, selVars, filtered_df, viewVars>>

\* load_data without its cache: the body runs on every call.
LoadDataUncached ==
    /\ pc = "start"
    /\ cache # <<>>
    /\ cache' = <<ReadAndPrepare(file)>>
    /\ reads' = reads + 1
    /\ df' = cache'[1]
    /\ pc' = "loaded"
    /\ UNCHANGED <<file, widgets, selVars, filtered_df, viewVars>>

\* load_data() on a cache hit: a copy of the stored frame is returned.
LoadDataHit ==
    /\ pc = "start"
    /\ cache # <<>>
    /\ df' = cache[1]
    /\ pc' = "loaded"
    /\ UNCHANGED <<file, cache, reads, widgets, selVars, filtered_df, viewVars>>

----------------------------------------------------------------------------
(* Sidebar filters *)

Column(frame, col) == {frame[i][col] : i \in 1..Len(frame)}

\* df[col].dropna().unique()
DropnaUnique(frame, col) == {c[1] : c \in {x \in Column(frame, col) : notna(x)}}

SetMin(S) == CHOOSE m \in S : \A x \in S : m <= x

SetMax(S) == CHOOSE m \in S : \A x \in S : x <= m

year_list(frame) == Column(frame, "Year")

min_year(frame) == SetMin(year_list(frame))

max_year(frame) == SetMax(year_list(frame))

sport_list(frame) == DropnaUnique(frame, "Sport")

country_list(frame) == DropnaUnique(frame, "Country")

\* What the three widgets can return for a frame.
WidgetValues(frame) ==
    [year_range : {yr \in (min_year(frame)..max_year(frame)) \X
                             (min_year(frame)..max_year(frame)) : yr[1] <= yr[2]},
     sport : {"All"} \cup sport_list(frame),
     countries : SUBSET country_list(frame)]

\* The widgets' values on a session's first run.
WidgetDefaults(frame) ==
    [year_range |-> <<min_year(frame), max_year(frame)>>,
     sport |-> "All",
     countries |-> {}]

\* Lines 37-56: the widgets return their defaults on the first run and the
\* session's values afterwards.
SidebarFilters ==
    /\ pc = "loaded"
    /\ LET w == IF widgets = <<>> THEN WidgetDefaults(df) ELSE widgets[1]
       IN  /\ selected_year_range' = w.year_range
           /\ selected_sport' = w.sport
           /\ selected_countries' = w.countries
           /\ widgets' = <<w>>
    /\ pc' = "selected"
    /\ UNCHANGED <<file, cache, reads, df, filtered_df, viewVars>>

----------------------------------------------------------------------------
(* Apply filters *)

\* The year mask with the upper end of the range left out.
YearBelow(frame, yr) ==
    SelectSeq(frame, LAMBDA r : r.Year >= yr[1] /\ r.Year < yr[2])

\* filtered_df[(Year >= lo) & (Year <= hi)]
YearBetween(frame, yr) ==
    SelectSeq(frame, LAMBDA r : r.Year >= yr[1] /\ r.Year <= yr[2])

\* filtered_df[filtered_df['Sport'] == selected_sport]
SportEquals(frame, sport) == SelectSeq(frame, LAMBDA r : r.Sport = Some(sport))

\* filtered_df[filtered_df['Country'].isin(selected_countries)]
CountryIsin(frame, countries) ==
    SelectSeq(frame, LAMBDA r : notna(r.Country) /\ r.Country[1] \in countries)

\* The filter without its country step.
FilterWithoutCountries(frame, yr, sport, countries) ==
    LET byYear == YearBetween(frame, yr)
    IN  IF sport # "All" THEN SportEquals(byYear, sport) ELSE byYear

\* Lines 59-67 as a function of the frame and the selection.
Filter(frame, yr, sport, countries) ==
    LET byYear == YearBetween(frame, yr)
        bySport == IF sport # "All" THEN SportEquals(byYear, sport) ELSE byYear
    IN  IF countries # {} THEN CountryIsin(bySport, countries) ELSE bySport

\* The filter applied to df itself instead of to a copy.
ApplyFiltersInPlace ==
    /\ pc = "selected"
    /\ df' = Filter(df, selected_year_range, selected_sport, selected_countries)
    /\ filtered_df' = df'
    /\ pc' = "filtered"
    /\ UNCHANGED <<file, cache, reads, widgets, selVars, viewVars>>

ApplyFilters ==
    /\ pc = "selected"
    /\ filtered_df' = Filter(df, selected_year_range, selected_sport,
                             selected_countries)
    /\ pc' = "filtered"
    /\ UNCHANGED <<file, cache, reads, widgets, df, selVars, viewVars>>

----------------------------------------------------------------------------
(* Aggregates *)

\* frame.dropna(subset=cols)
dropna(frame, cols) == SelectSeq(frame, LAMBDA r : \A c \in cols : notna(r[c]))

\* frame[col].nunique() of a nullable column
nunique(frame, col) == Cardinality(DropnaUnique(frame, col))

\* Rows of the frame per non-null value of col: the sizes value_counts() and
\* groupby(col).count() start from.
GroupSizes(frame, col) ==
    [v \in DropnaUnique(frame, col) |->
        Cardinality({i \in 1..Len(frame) : frame[i][col] = Some(v)})]

\* The counts sorted in ascending order.
RECURSIVE SortAscending(_)
SortAscending(sizes) ==
    IF DOMAIN sizes = {} THEN {<<>>}
    ELSE LET low == {v \in DOMAIN sizes : \A u \in DOMAIN sizes : sizes[v] <= sizes[u]}
         IN  UNION {{<<[key |-> v, count |-> sizes[v]]>> \o rest :
                        rest \in SortAscending([u \in DOMAIN sizes \ {v} |-> sizes[u]])} :
                    v \in low}

\* sort_values(ascending=False) of a Series of counts.  The default sort kind
\* is quicksort, which is not stable: equal counts come out in an order the
\* call does not fix, so every count-descending order is a possible result.
RECURSIVE SortDescending(_)
SortDescending(sizes) ==
    IF DOMAIN sizes = {} THEN {<<>>}
    ELSE LET top == {v \in DOMAIN sizes : \A u \in DOMAIN sizes : sizes[u] <= sizes[v]}
         IN  UNION {{<<[key |-> v, count |-> sizes[v]]>> \o rest :
                        rest \in SortDescending([u \in DOMAIN sizes \ {v} |-> sizes[u]])} :
                    v \in top}

\* head with one entry too many.
headOneMore(series, n) ==
    SubSeq(series, 1, IF Len(series) < n + 1 THEN Len(series) ELSE n + 1)

\* series.head(n)
head(series, n) == SubSeq(series, 1, IF Len(series) < n THEN Len(series) ELSE n)

\* The buckets counting athletes (distinct ID) instead of rows.
GenderCountsOfAthletes(frame) ==
    SortDescending([v \in DropnaUnique(frame, "Sex") |->
                      Cardinality({frame[i].ID :
                                      i \in {j \in 1..Len(frame) : frame[j].Sex = Some(v)}})])

\* Line 107: filtered_df['Sex'].value_counts()
GenderCounts(frame) == SortDescending(GroupSizes(frame, "Sex"))

\* Line 157: dropna(subset=['Medal'])['Sport'].value_counts().head(10)
MedalCounts(frame) ==
    {head(s, TopN) : s \in SortDescending(GroupSizes(dropna(frame, {"Medal"}), "Sport"))}

\* Line 186: dropna(subset=['Medal']).groupby('Name')['Medal'].count()
\*           .sort_values(ascending=False).head(10)
TopAthletes(frame) ==
    {head(s, TopN) : s \in SortDescending(GroupSizes(dropna(frame, {"Medal"}), "Name"))}

\* Line 169: groupby(['Year', 'Medal'])['ID'].count().unstack(fill_value=0).
\* The rows of the table are the years and its columns the medal types that
\* occur in the medal rows; a pair that occurs in no row gets fill_value.
MedalYearType(frame) ==
    LET medals == dropna(frame, {"Medal"})
    IN  [y \in Column(medals, "Year") |->
            [m \in DropnaUnique(medals, "Medal") |->
                Cardinality({i \in 1..Len(medals) :
                                medals[i].Year = y /\ medals[i].Medal = Some(m)})]]

\* Lines 198-204: one record per (Year, Country) of the medal rows of the
\* selected countries.
CountryMedalsOverYears(frame, countries) ==
    LET medals == dropna(CountryIsin(frame, countries), {"Medal"})
    IN  {[Year |-> k[1], Country |-> k[2],
          Medal |-> Cardinality({i \in 1..Len(medals) :
                                    medals[i].Year = k[1] /\ medals[i].Country = Some(k[2])})] :
            k \in {<<medals[i].Year, medals[i].Country[1]>> : i \in 1..Len(medals)}}

\* The athletes per year counted over the whole data set df.
AthleteCountsOfBase(frame) ==
    [y \in Column(df, "Year") |->
        Cardinality({df[i].ID : i \in {j \in 1..Len(df) : df[j].Year = y}})]

\* Line 218: filtered_df.groupby('Year')['ID'].nunique()
AthleteCountsOverall(frame) ==
    [y \in Column(frame, "Year") |->
        Cardinality({frame[i].ID : i \in {j \in 1..Len(frame) : frame[j].Year = y}})]

\* Lines 75-79
Metrics(frame) ==
    [athletes |-> Cardinality(Column(frame, "ID")),
     events |-> nunique(frame, "Event"),
     countries |-> nunique(frame, "Country"),
     medals |-> Len(dropna(frame, {"Medal"}))]

\* Lines 75-227: every view is computed from filtered_df.
RenderViews ==
    /\ pc = "filtered"
    /\ metrics' = Metrics(filtered_df)
    /\ age_rows' = dropna(filtered_df, {"Age"})
    /\ gender_counts' \in GenderCounts(filtered_df)
    /\ hw_rows' = dropna(filtered_df, {"Height", "Weight", "Sex"})
    /\ bmi_rows' = dropna(filtered_df, {"BMI"})
    /\ medal_counts' \in MedalCounts(filtered_df)
    /\ medal_year_type' = MedalYearType(filtered_df)
    /\ top_athletes' \in TopAthletes(filtered_df)
    /\ country_medals_over_years' =
          IF selected_countries # {}
          THEN <<CountryMedalsOverYears(filtered_df, selected_countries)>>
          ELSE <<>>
    /\ athlete_counts_overall' = AthleteCountsOverall(filtered_df)
    /\ pc' = "rendered"
    /\ UNCHANGED <<file, cache, reads, widgets, df, selVars, filtered_df>>

----------------------------------------------------------------------------
(* A user interaction: a widget returns a new value and the script runs    *)
(* again from its first line; the variables of the finished run are gone.  *)

NoViews ==
    /\ metrics' = [athletes |-> 0, events |-> 0, countries |-> 0, medals |-> 0]
    /\ age_rows' = <<>>
    /\ gender_counts' = <<>>
    /\ hw_rows' = <<>>
    /\ bmi_rows' = <<>>
    /\ medal_counts' = <<>>
    /\ medal_year_type' = <<>>
    /\ top_athletes' = <<>>
    /\ country_medals_over_years' = <<>>
    /\ athlete_counts_overall' = <<>>

Interact ==
    /\ pc = "rendered"
    /\ \E w \in WidgetValues(df) : widgets' = <<w>>
    /\ pc' = "start"
    /\ df' = <<>>
    /\ selected_year_range' = <<>>
    /\ selected_sport' = ""
    /\ selected_countries' = {}
    /\ filtered_df' = <<>>
    /\ NoViews
    /\ UNCHANGED <<file, cache, reads>>

----------------------------------------------------------------------------

\* The process starts with an empty cache and no session state.
Start ==
    /\ cache = <<>>
    /\ reads = 0
    /\ pc = "start"
    /\ widgets = <<>>
    /\ df = <<>>
    /\ selected_year_range = <<>>
    /\ selected_sport = ""
    /\ selected_countries = {}
    /\ filtered_df = <<>>
    /\ metrics = [athletes |-> 0, events |-> 0, countries |-> 0, medals |-> 0]
    /\ age_rows = <<>>
    /\ gender_counts = <<>>
    /\ hw_rows = <<>>
    /\ bmi_rows = <<>>
    /\ medal_counts = <<>>
    /\ medal_year_type = <<>>
    /\ top_athletes = <<>>
    /\ country_medals_over_years = <<>>
    /\ athlete_counts_overall = <<>>

Init == file \in FilterFiles /\ Start

Next ==
    \/ LoadDataMiss
    \/ LoadDataHit
    \/ SidebarFilters
    \/ ApplyFilters
    \/ RenderViews
    \/ Interact

Spec == Init /\ [][Next]_vars

InitPhysical == file \in PhysicalFiles /\ Start

SpecPhysical == InitPhysical /\ [][Next]_vars

InitGender == file \in GenderFiles /\ Start

SpecGender == InitGender /\ [][Next]_vars

InitMedals == file \in MedalFiles /\ Start

SpecMedals == InitMedals /\ [][Next]_vars

InitRanking == file \in RankingFiles /\ Start

SpecRanking == InitRanking /\ [][Next]_vars

----------------------------------------------------------------------------
(* Properties. *)

Filtered == pc \in {"filtered", "rendered"}

Rendered == pc = "rendered"

\* The selection's predicate on a row, as the contract of the filter states it.
Matches(r) ==
    /\ selected_year_range[1] <= r.Year
    /\ r.Year <= selected_year_range[2]
    /\ selected_sport # "All" => r.Sport = <<selected_sport>>
    /\ selected_countries # {} => \E c \in selected_countries : r.Country = <<c>>

\* C1: the filtered view holds exactly the rows of the data set that lie in
\* the year range, are of the selected sport unless it is "All", and are of a
\* selected country unless none is selected: every matching row as often as
\* the data set holds it, no other row, and no row at all (not an error)
\* when nothing matches.
C1_FilterExact ==
    Filtered =>
        /\ Range(filtered_df) \subseteq Range(df)
        /\ \A r \in Range(df) :
              Occurrences(filtered_df, r) = IF Matches(r) THEN Occurrences(df, r) ELSE 0
        /\ (\A r \in Range(df) : ~Matches(r)) => filtered_df = <<>>

C1_Witness ==
    /\ Filtered
    /\ selected_sport # "All"
    /\ selected_countries # {}
    /\ selected_year_range[1] = selected_year_range[2]
    /\ filtered_df # <<>>
    /\ Len(filtered_df) < Len(df)

\* C2: at every point of every run the cached data set and the frame the run
\* works on are the loader's output for the file, BMI column included;
\* filtering and the aggregates only produce new views.
C2_BaseUnchanged ==
    /\ cache # <<>> =>
          /\ Len(cache[1]) = Len(file)
          /\ \A i \in 1..Len(file) : cache[1][i] = LoadRow(file[i])
    /\ pc # "start" => df = cache[1]

C2_Witness ==
    /\ Rendered
    /\ widgets[1] # WidgetDefaults(df)
    /\ Len(filtered_df) < Len(df)
    /\ df = cache[1]

\* C3: the file is read and BMI computed at most once however many runs
\* there are, and the sidebar, the filter and the aggregates only run once
\* the load has completed.
C3_LoadOnce ==
    /\ reads <= 1
    /\ pc # "start" => reads = 1 /\ cache # <<>>

C3_Witness ==
    /\ Rendered
    /\ reads = 1
    /\ widgets[1] # WidgetDefaults(df)

MedalRowsOf(col, v) ==
    Cardinality({i \in 1..Len(filtered_df) :
                    filtered_df[i].Medal # <<>> /\ filtered_df[i][col] = <<v>>})

\* The values of column col in the medal rows of the filtered view.
MedalGroups(col) ==
    {filtered_df[i][col][1] :
        i \in {j \in 1..Len(filtered_df) :
                  filtered_df[j].Medal # <<>> /\ filtered_df[j][col] # <<>>}}

Keys(ranking) == {ranking[i].key : i \in 1..Len(ranking)}

TopTenOf(ranking, col) ==
    /\ Len(ranking) <= 10
    /\ \A i, j \in 1..Len(ranking) : i < j => ranking[i].count >= ranking[j].count
    /\ \A i, j \in 1..Len(ranking) : i # j => ranking[i].key # ranking[j].key
    /\ \A i \in 1..Len(ranking) :
          /\ ranking[i].key \in MedalGroups(col)
          /\ ranking[i].count = MedalRowsOf(col, ranking[i].key)
    /\ \A g \in MedalGroups(col) \ Keys(ranking) :
          \A i \in 1..Len(ranking) : MedalRowsOf(col, g) <= ranking[i].count

\* C5: the top sports and the top athletes are at most 10 entries each, in
\* descending order of count, each count being the number of medal rows of
\* that sport or name in the filtered view, and no group left out has more
\* medal rows than a group that is in.
C5_TopTen ==
    Rendered => TopTenOf(medal_counts, "Sport") /\ TopTenOf(top_athletes, "Name")

C5_Witness ==
    /\ Rendered
    /\ Cardinality(MedalGroups("Sport")) > 10
    /\ Cardinality(MedalGroups("Name")) > 10
    /\ Len(medal_counts) = 10
    /\ Len(top_athletes) = 10

\* C6: the table of medals by year and type has, for every year with a medal
\* row in the filtered view and each of Gold, Silver and Bronze, a count,
\* which is 0 for a type the year has no row of, also when that type occurs
\* in no row of the filtered view.
C6_PivotAllTypes ==
    Rendered =>
        \A y \in {filtered_df[i].Year :
                    i \in {j \in 1..Len(filtered_df) : filtered_df[j].Medal # <<>>}} :
            /\ y \in DOMAIN medal_year_type
            /\ \A m \in {"Gold", "Silver", "Bronze"} :
                  /\ m \in DOMAIN medal_year_type[y]
                  /\ medal_year_type[y][m] =
                        Cardinality({i \in 1..Len(filtered_df) :
                                        filtered_df[i].Year = y /\ filtered_df[i].Medal = <<m>>})

\* C7: the BMI of a loaded row is Weight / (Height/100)^2 when both are
\* present and Height is not zero, and is null when Height is missing,
\* Weight is missing or Height is zero; a row of Height 0 is not among the
\* rows of the BMI histogram.
C7_BMIDefined ==
    pc # "start" =>
        \A i \in 1..Len(df) :
            LET h == df[i].Height
                w == df[i].Weight
                b == df[i].BMI
            IN  /\ (h # <<>> /\ w # <<>> /\ h[1] # 0) =>
                      /\ b # <<>>
                      /\ b[1].den > 0
                      /\ b[1].num * h[1] * h[1] = w[1] * 10000 * b[1].den
                /\ (h = <<>> \/ w = <<>> \/ h = <<0>>) => b = <<>>
                /\ (Rendered /\ h = <<0>>) => df[i] \notin Range(bmi_rows)

\* C8: filtering the filtered view again with the same selection gives the
\* filtered view, and so does the country filter applied to it alone, as the
\* per-country medal view does.
C8_FilterIdempotent ==
    Filtered =>
        /\ Filter(filtered_df, selected_year_range, selected_sport, selected_countries)
              = filtered_df
        /\ selected_countries # {} =>
              CountryIsin(filtered_df, selected_countries) = filtered_df

C8_Witness ==
    /\ Rendered
    /\ selected_countries # {}
    /\ country_medals_over_years # <<{}>>
    /\ Len(filtered_df) < Len(df)

\* Index of the first medal row of the filtered view whose column col holds v.
FirstMedalRow(col, v) ==
    CHOOSE i \in 1..Len(filtered_df) :
        /\ filtered_df[i].Medal # <<>> /\ filtered_df[i][col] = <<v>>
        /\ \A j \in 1..(i - 1) :
              ~(filtered_df[j].Medal # <<>> /\ filtered_df[j][col] = <<v>>)

TiesByInputOrder(ranking, col) ==
    /\ \A i, j \in 1..Len(ranking) :
          (i < j /\ ranking[i].count = ranking[j].count) =>
              FirstMedalRow(col, ranking[i].key) < FirstMedalRow(col, ranking[j].key)
    /\ \A g \in MedalGroups(col) \ Keys(ranking) :
          \A i \in 1..Len(ranking) :
              ranking[i].count = MedalRowsOf(col, g) =>
                  FirstMedalRow(col, ranking[i].key) < FirstMedalRow(col, g)

\* C9 as stated: sports (names) with equal counts are in the order of their
\* first medal rows in the filtered view, and that order decides which of
\* them are kept when the cut to 10 falls inside a tie.
C9_TiesByInputOrder ==
    Rendered =>
        TiesByInputOrder(medal_counts, "Sport") /\ TiesByInputOrder(top_athletes, "Name")

Position(ranking, k) == CHOOSE i \in 1..Len(ranking) : ranking[i].key = k

StrictOrderOnly(ranking, col) ==
    /\ Len(ranking) = IF Cardinality(MedalGroups(col)) < 10
                      THEN Cardinality(MedalGroups(col)) ELSE 10
    /\ \A g, h \in MedalGroups(col) :
          (MedalRowsOf(col, g) > MedalRowsOf(col, h) /\ h \in Keys(ranking)) =>
              /\ g \in Keys(ranking)
              /\ Position(ranking, g) < Position(ranking, h)

\* C9 as amended: a sport (name) with more medal rows comes before one with
\* fewer and is kept whenever the other is, and min(10, number of groups)
\* entries are kept; among equal counts the order, and which of them
\* survive the cut, is not fixed by the order of the rows.
C9_StrictOrderOnly ==
    Rendered =>
        StrictOrderOnly(medal_counts, "Sport") /\ StrictOrderOnly(top_athletes, "Name")

\* The cut falls inside a tie and the tied sport that is kept is the one whose
\* first medal row comes later.
C9_Witness ==
    /\ Rendered
    /\ Len(medal_counts) = 10
    /\ \E g \in MedalGroups("Sport") \ Keys(medal_counts) :
          /\ MedalRowsOf("Sport", g) = medal_counts[10].count
          /\ FirstMedalRow("Sport", g) < FirstMedalRow("Sport", medal_counts[10].key)

RECURSIVE SumCounts(_)
SumCounts(ranking) ==
    IF ranking = <<>> THEN 0 ELSE Head(ranking).count + SumCounts(Tail(ranking))

\* C10 as stated: the gender buckets count every row of the filtered view,
\* the rows of null Sex in a bucket of their own, so the counts sum to the
\* number of rows of the filtered view.
C10_NullBucket ==
    Rendered => SumCounts(gender_counts) = Len(filtered_df)

\* C10 as amended: there is one bucket per Sex value present in the filtered
\* view, holding the number of rows of that Sex; rows of null Sex are in no
\* bucket, so the counts sum to the number of rows whose Sex is present.
C10_PresentOnly ==
    Rendered =>
        /\ \A i \in 1..Len(gender_counts) :
              gender_counts[i].count =
                  Cardinality({j \in 1..Len(filtered_df) :
                                  filtered_df[j].Sex = <<gender_counts[i].key>>})
        /\ Keys(gender_counts) =
              {filtered_df[j].Sex[1] :
                  j \in {k \in 1..Len(filtered_df) : filtered_df[k].Sex # <<>>}}
        /\ Len(gender_counts) = Cardinality(Keys(gender_counts))
        /\ SumCounts(gender_counts) =
              Cardinality({j \in 1..Len(filtered_df) : filtered_df[j].Sex # <<>>})

C10_Witness ==
    /\ Rendered
    /\ \E i, j \in 1..Len(filtered_df) :
          filtered_df[i].Sex = <<>> /\ filtered_df[j].Sex # <<>>
    /\ Len(gender_counts) = 2

====
